---- MODULE Spec2Model ----
(***************************************************************************)
(* A model of apple-filter-sorter (src/file-sort.py): the run driver       *)
(* main(), the availability resolver ensure_file_downloaded(), the text    *)
(* extractor extract_text_from_pdf(), the classifier's response parser,    *)
(* the category -> folder table, the filing engine and the audit CSV.      *)
(*                                                                         *)
(* Strings are sequences.  A file name is a sequence of characters.  An    *)
(* assistant response, a category and a folder name are sequences of       *)
(* tokens: a token is one separator character (a blank, a quote, a slash)  *)
(* or a word that holds no slash and neither starts nor ends with a blank  *)
(* or a quote, so str.strip and str.split act on tokens exactly as they    *)
(* act on the characters.  An extracted text is a sequence of characters.  *)
(* A Python None is the record None; a str value s is Some(s).             *)
(***************************************************************************)
EXTENDS Integers, Sequences, FiniteSets, TLC

VARIABLES
    pc,              \* position of the single thread of control
    idx,             \* main: index of pdf_file in pdf_files
    pdf_files,       \* main: the listing taken by scan_folder.glob("*.pdf")
    fs,              \* the filesystem: the set of [dir, name, doc] entries
    scratch,         \* the scratch copy made for the file under extraction:
                     \* "absent" | "empty" | "data"; followed only while
                     \* a call that may still touch it is under way
    auditFile,       \* file_move_log.csv: None (absent) or Some(rows)
    now,             \* the wall clock read by datetime.now()
    dl,              \* ensure_file_downloaded: locals and trace of one call
    ex,              \* extract_text_from_pdf: locals and trace of one call
    file_contents,   \* main: the text returned by extract_text_from_pdf
    response,        \* the assistant's plain-text answer under parsing
    category,        \* main: classify_file_category()[0]
    subcategory,     \* main: classify_file_category()[1]
    dest_folder,     \* main: the destination folder, or None
    nm,              \* main: the renaming locals of the current file
    mv,              \* move_file_to_destination: the last call and its result
    hist,            \* per document: what the run has done to it so far
    logged           \* the entries of the log_file_move calls that returned

vars == <<pc, idx, pdf_files, fs, scratch, auditFile, now, dl, ex,
          file_contents, response, category, subcategory, dest_folder,
          nm, mv, hist, logged>>

-----------------------------------------------------------------------------
(* Bounds of the model. *)

\* Number of PDF files in the inbox at the start of a run.
NumFiles == 2
\* Number of pages a PDF reader or the rasteriser finds in one document.
MaxPages == 2
\* Number of slash-separated parts in an enumerated assistant response.
MaxParts == 3
\* Number of separator tokens wrapped on each side of a response.
MaxWrap == 2
\* Number of log_file_move calls in the audit-log specification.
MaxLog == 3
\* Number of rows that may reach the disk when writing the audit file fails.
MaxTornRows == 0

-----------------------------------------------------------------------------
(* Python values. *)

None == [some |-> FALSE, val |-> <<>>]
Some(s) == [some |-> TRUE, val |-> s]
\* bool(x) of an Optional[str]
Truthy(o) == o.some /\ o.val # <<>>

Q2 == "\""
Q1 == "'"
SP == " "
NL == "\n"
SL == "/"
Whitespace == {SP, NL}

Rep(c, n) == [i \in 1..n |-> c]

RECURSIVE LStripSet(_, _)
LStripSet(s, cs) ==
    IF s = <<>> THEN s
    ELSE IF Head(s) \in cs THEN LStripSet(Tail(s), cs) ELSE s

RECURSIVE RStripSet(_, _)
RStripSet(s, cs) ==
    IF s = <<>> THEN s
    ELSE IF s[Len(s)] \in cs THEN RStripSet(SubSeq(s, 1, Len(s) - 1), cs) ELSE s

\* s.strip(chars)
StripSet(s, cs) == RStripSet(LStripSet(s, cs), cs)
\* s.strip()
Strip(s) == StripSet(s, Whitespace)

\* s.split(sep): always at least one part
RECURSIVE SplitFrom(_, _, _)
SplitFrom(s, sep, cur) ==
    IF s = <<>> THEN <<cur>>
    ELSE IF Head(s) = sep THEN <<cur>> \o SplitFrom(Tail(s), sep, <<>>)
    ELSE SplitFrom(Tail(s), sep, Append(cur, Head(s)))
Split(s, sep) == SplitFrom(s, sep, <<>>)

\* sep.join(parts)
RECURSIVE Join(_, _)
Join(parts, sep) ==
    IF parts = <<>> THEN <<>>
    ELSE IF Len(parts) = 1 THEN parts[1]
    ELSE parts[1] \o <<sep>> \o Join(Tail(parts), sep)

StartsWith(s, p) == Len(s) >= Len(p) /\ SubSeq(s, 1, Len(p)) = p
EndsWith(s, p) == Len(s) >= Len(p) /\ SubSeq(s, Len(s) - Len(p) + 1, Len(s)) = p

\* All sequences over S of length 0..n
SeqsUpTo(S, n) == UNION {[1..k -> S] : k \in 0..n}

-----------------------------------------------------------------------------
(* The static taxonomy. *)

\* "A/B" as a token string
Cat2(a, b) == <<a, SL, b>>

NoSubs == {}
CATEGORY_STRUCTURE ==
    [c \in {<<"Medical">>, <<"Career">>, <<"Cars">>, <<"Sheet Music">>,
            <<"Recipes">>, <<"User Manuals">>, <<"Misc">>,
            Cat2("Financial", "Bills"), Cat2("Financial", "Cards"),
            Cat2("Financial", "Checks"), Cat2("Financial", "Class Action"),
            Cat2("Financial", "Home Maintenance"), Cat2("Financial", "Insurance"),
            Cat2("Financial", "Investments"), Cat2("Financial", "Legal"),
            Cat2("Financial", "Mortgage"), Cat2("Financial", "Paystubs"),
            Cat2("Financial", "Receipts"), Cat2("Financial", "Taxes"),
            Cat2("Financial", "Tolls"), Cat2("Financial", "Misc"),
            Cat2("Kids", "School"),
            Cat2("Personal", "Government Documents"), Cat2("Personal", "Letters"),
            Cat2("Personal", "Spiritual"),
            Cat2("Purchases", "Tickets"), Cat2("Purchases", "Product Manuals"),
            Cat2("Purchases", "Other")} |->
        CASE c = <<"Medical">> -> {"Anthony", "Hannah", "Oliver", "Roman"}
          [] c = Cat2("Financial", "Bills") ->
                {"HOA", "Electric", "Gas", "Water", "Internet", "Lawn",
                 "Storage", "Health", "Medical"}
          [] c = Cat2("Financial", "Cards") -> {"Chase", "Target", "Sams Club"}
          [] c = Cat2("Financial", "Home Maintenance") -> {"HVAC", "Pool"}
          [] c = Cat2("Financial", "Insurance") -> {"Auto Home", "Health Dental Vision"}
          [] c = Cat2("Financial", "Investments") -> {"401k", "Roth IRA", "Stocks"}
          [] c = <<"Career">> -> {"Certifications", "Resumes", "Business Cards"}
          [] c = <<"Cars">> -> {"2021 Sequoia", "2022 Accord"}
          [] c = Cat2("Purchases", "Product Manuals") ->
                {"Appliances", "Home", "Tools", "Toys", "Music", "Baby Products",
                 "Amazon Basics"}
          [] OTHER -> NoSubs]

CategoryKeys == DOMAIN CATEGORY_STRUCTURE

(* Folder paths: a path is a sequence of segments, a segment a token string. *)
DOCUMENTS_BASE_PATH == << <<"<Documents>">> >>
FsRoot == << <<SL>> >>

\* pathlib's  path / s : an absolute s replaces the path; empty segments vanish
PathJoin(path, s) ==
    LET segs == SelectSeq(Split(s, SL), LAMBDA p : p # <<>>)
    IN IF s # <<>> /\ Head(s) = SL THEN FsRoot \o segs ELSE path \o segs

\* folder_name_map.get(subcat_name, subcat_name)
FolderNameMap(subcat_name) ==
    IF subcat_name = <<"Misc">> THEN <<"Misc.">> ELSE subcat_name

\* subcat_folder_map.get(subcategory, subcategory)
SubcatFolderMap(sub) ==
    CASE sub = <<"Sams Club">> -> <<"Sam's Club">>
      [] sub = <<"Auto Home">> -> <<"Encompass:Safeco">>
      [] sub = <<"Health Dental Vision">> -> <<"Health:Dental:Vision">>
      [] OTHER -> sub

\* A catch-all folder named without the trailing blank
MiscFolder_NoBlank == PathJoin(DOCUMENTS_BASE_PATH, <<"Misc.">>)

\* base / "Misc. "
MiscFolder == PathJoin(DOCUMENTS_BASE_PATH, <<"Misc. ">>)

\* path / subcategory  under  "if subcategory:"
WithSub(path, sub) == IF Truthy(sub) THEN PathJoin(path, sub.val) ELSE path

\* get_folder_path_for_category(category, subcategory); category is a str
get_folder_path_for_category(cat, sub) ==
    LET base == DOCUMENTS_BASE_PATH
        category_parts == Split(cat, SL)
    IN CASE cat = <<"Medical">> -> WithSub(PathJoin(base, <<"Medical">>), sub)
         [] StartsWith(cat, <<"Financial", SL>>) ->
              LET path == PathJoin(PathJoin(base, <<"Financial">>),
                                   FolderNameMap(category_parts[2]))
              IN IF Truthy(sub) THEN PathJoin(path, SubcatFolderMap(sub.val))
                 ELSE path
         [] cat = <<"Career">> -> WithSub(PathJoin(base, <<"Career">>), sub)
         [] cat = <<"Cars">> -> WithSub(PathJoin(base, <<"Cars">>), sub)
         [] StartsWith(cat, <<"Kids", SL>>) ->
              PathJoin(PathJoin(base, <<"Kids">>), category_parts[2])
         [] StartsWith(cat, <<"Personal", SL>>) ->
              PathJoin(PathJoin(base, <<"Personal">>), category_parts[2])
         [] StartsWith(cat, <<"Purchases", SL>>) ->
              WithSub(PathJoin(PathJoin(base, <<"Purchases">>), category_parts[2]), sub)
         [] cat = <<"Sheet Music">> -> PathJoin(base, <<"Sheet Music">>)
         [] cat = <<"Recipes">> -> PathJoin(base, <<"Recipes">>)
         [] cat = <<"User Manuals">> -> PathJoin(base, <<"User Manuals">>)
         [] cat = <<"Misc">> -> MiscFolder
         [] OTHER -> MiscFolder

-----------------------------------------------------------------------------
(* classify_file_category: parsing the assistant's answer. *)

\* lines 474-485: call_chatgpt_shortcut given the plain text of the assistant's
\* answer (None: a non-zero return code, a timeout or an exception)
call_chatgpt_shortcut(plain_text) ==
    IF plain_text.some THEN Some(Strip(plain_text.val)) ELSE None

\* result.strip().strip('"').strip("'")
CleanQuotes(s) == StripSet(StripSet(Strip(s), {Q2}), {Q1})

\* f"{parts[0]}/{parts[1]}"
PotentialCategory(parts) == parts[1] \o <<SL>> \o parts[2]

\* A parse that never looks the first two parts up in the taxonomy
ParseCategory_FirstPartOnly(result) ==
    LET parts == Split(CleanQuotes(result), SL)
    IN IF Len(parts) = 1 THEN <<Some(parts[1]), None>>
       ELSE <<Some(parts[1]), Some(Join(SubSeq(parts, 2, Len(parts)), SL))>>

\* A parse that takes the first two parts as the category, known or not
ParseCategory_TwoPartsAlways(result) ==
    LET parts == Split(CleanQuotes(result), SL)
    IN IF Len(parts) = 1 THEN <<Some(parts[1]), None>>
       ELSE IF Len(parts) = 2 THEN <<Some(PotentialCategory(parts)), None>>
       ELSE <<Some(PotentialCategory(parts)),
              Some(Join(SubSeq(parts, 3, Len(parts)), SL))>>

\* The parse of a non-empty answer: <<category, subcategory>>
ParseCategory(result) ==
    LET parts == Split(CleanQuotes(result), SL)
    IN IF Len(parts) = 1 THEN <<Some(parts[1]), None>>
       ELSE LET potential_category == PotentialCategory(parts) IN
            IF Len(parts) = 2
            THEN IF potential_category \in CategoryKeys
                 THEN <<Some(potential_category), None>>
                 ELSE <<Some(parts[1]), Some(parts[2])>>
            ELSE IF potential_category \in CategoryKeys
                 THEN <<Some(potential_category),
                        Some(Join(SubSeq(parts, 3, Len(parts)), SL))>>
                 ELSE <<Some(parts[1]),
                        Some(Join(SubSeq(parts, 2, Len(parts)), SL))>>

\* classify_file_category given the assistant's plain-text answer
classify_file_category(plain_text) ==
    LET result == call_chatgpt_shortcut(plain_text)
    IN IF ~Truthy(result) THEN <<None, None>> ELSE ParseCategory(result.val)

-----------------------------------------------------------------------------
(* File names (character strings) and the manual-override pattern. *)

Digits == {"0", "1", "2", "3", "4", "5", "6", "7", "8", "9"}
DotPdf == <<".", "p", "d", "f">>

AllIn(s, from, to, cs) == \A i \in from..to : s[i] \in cs

\* A pattern that wants a time of day after the date: no dated name matches
MatchesDatePattern_WithTime(name) ==
    /\ Len(name) >= 16
    /\ AllIn(name, 1, 4, Digits) /\ name[5] = "-"
    /\ AllIn(name, 6, 7, Digits) /\ name[8] = "-"
    /\ AllIn(name, 9, 10, Digits) /\ name[11] = "T"
    /\ AllIn(name, 12, 13, Digits) /\ name[14] = ":"
    /\ AllIn(name, 15, 16, Digits)

\* re.match(r'^\d{4}-\d{2}-\d{2}\s+-\s+.+\.pdf$', name)
MatchesDatePattern(name) ==
    /\ Len(name) >= 10
    /\ AllIn(name, 1, 4, Digits) /\ name[5] = "-"
    /\ AllIn(name, 6, 7, Digits) /\ name[8] = "-"
    /\ AllIn(name, 9, 10, Digits)
    /\ \E i \in 11..Len(name) :          \* the dash after \s+
         /\ i >= 12 /\ AllIn(name, 11, i - 1, Whitespace) /\ name[i] = "-"
         /\ \E j \in (i + 2)..Len(name) : \* the first character of .+
              /\ AllIn(name, i + 1, j - 1, Whitespace)
              /\ \E e \in {Len(name), Len(name) - 1} :  \* $ : the end, or before a final \n
                   /\ e = Len(name) \/ name[Len(name)] = NL
                   /\ e - 4 >= j
                   /\ SubSeq(name, e - 3, e) = DotPdf
                   /\ \A k \in j..(e - 4) : name[k] # NL   \* . matches no newline

\* suggested_filename.strip().strip('"').strip("'"), then the extension
CleanSuggestedFilename(raw) ==
    LET s == CleanQuotes(raw)
    IN IF EndsWith(s, DotPdf) THEN s ELSE s \o DotPdf

-----------------------------------------------------------------------------
(* The audit CSV.  A row is a record; hdr marks the row whose four cells   *)
(* are exactly the header's.                                               *)

HeaderRow == [hdr |-> TRUE, ts |-> 0, old |-> <<>>, new |-> <<>>, dest |-> <<>>]
DataRow(t, old, new, dest) == [hdr |-> FALSE, ts |-> t, old |-> old, new |-> new, dest |-> dest]

\* existing_entries as log_file_move reads them
ExistingEntries(file) ==
    IF ~file.some \/ file.val = <<>> THEN <<>>
    ELSE (IF Head(file.val) # HeaderRow THEN <<Head(file.val)>> ELSE <<>>)
         \o Tail(file.val)

\* Rows written oldest first
LogRows_OldestFirst(file, new_entry) ==
    <<HeaderRow>> \o ExistingEntries(file) \o <<new_entry>>

\* the rows log_file_move writes
LogRows(file, new_entry) == <<HeaderRow, new_entry>> \o ExistingEntries(file)

\* The audit file after a call of log_file_move ends in outcome o:
\*   "ok"          every row written;
\*   "read_error"  the call raised before the file was opened for writing;
\*   <<"write_error", k>>  opened for writing (truncated), k rows reached the disk.
LogOutcomes(file, new_entry) ==
    {<<"ok", 0>>, <<"read_error", 0>>}
    \cup {<<"write_error", k>> :
            k \in {n \in 0..MaxTornRows : n < Len(LogRows(file, new_entry))}}

log_file_move(file, new_entry, o) ==
    CASE o[1] = "ok" -> Some(LogRows(file, new_entry))
      [] o[1] = "read_error" -> file
      [] OTHER -> Some(SubSeq(LogRows(file, new_entry), 1, o[2]))
-----------------------------------------------------------------------------
(* The filesystem. *)

Docs == 1..NumFiles
\* A document that was filed before this run
Foreign == 0

Inbox == PathJoin(DOCUMENTS_BASE_PATH, <<"00 - Scan Inbox">>)

Entry(dir, name, doc) == [dir |-> dir, name |-> name, doc |-> doc]
\* Path.exists()
Exists(f, dir, name) == \E e \in f : e.dir = dir /\ e.name = name
\* A rename that leaves the source behind, as a copy does
Rename_Copying(f, sdir, sname, ddir, dname) ==
    LET src == CHOOSE e \in f : e.dir = sdir /\ e.name = sname
    IN f \cup {Entry(ddir, dname, src.doc)}

\* Path.rename(target): the target, when it exists, is silently replaced
Rename(f, sdir, sname, ddir, dname) ==
    LET src == CHOOSE e \in f : e.dir = sdir /\ e.name = sname
    IN {e \in f : e # src /\ ~(e.dir = ddir /\ e.name = dname)}
       \cup {Entry(ddir, dname, src.doc)}

Scan001 == <<"s", "c", "a", "n", "0", "0", "1", ".", "p", "d", "f">>
Dated == <<"2", "0", "2", "5", "-", "0", "1", "-", "0", "1", " ", "-", " ", "x",
           ".", "p", "d", "f">>
NearDated == <<"2", "0", "2", "5", "-", "0", "1", "-", "0", "1", " ", "-", "x",
               ".", "p", "d", "f">>
\* Names the inbox files carry when the run starts
InitialNames == {Scan001, Dated, NearDated}

\* What the assistant may answer to generate_filename (None: the call failed)
SuggestedDated == SubSeq(Dated, 1, Len(Dated) - 4)
SuggestedQuoted == <<Q1>> \o Scan001 \o <<Q1>>
\* The longest file name the platform takes (NAME_MAX), and an answer beyond it
NAME_MAX == 255
SuggestedTooLong == Rep("x", NAME_MAX + 1)
Suggestions == {None, Some(<<SP>>), Some(SuggestedDated), Some(SuggestedQuoted),
                Some(SuggestedTooLong)}

\* What the assistant may answer to classify_file_category (None: the call failed)
RespMedicalOliver == <<"Medical", SL, "Oliver">>
RespUnknown == <<"Invoices">>
MainResponses == {None, Some(<<SP>>), Some(RespMedicalOliver), Some(RespUnknown)}

MedicalOliverFolder == get_folder_path_for_category(<<"Medical">>, Some(<<"Oliver">>))

-----------------------------------------------------------------------------
(* ensure_file_downloaded *)

max_copy_retries == 5
max_retries == 5

\* attempt: the copy loop's variable, dead once the loop is left; copied: what
\* the copy that did not raise produced; reads, readFails: direct reads made
\* and failed; waits: the sleeps of the direct-read loop; content: what the
\* direct read that raised nothing had accumulated; copySleep: the seconds
\* the latest pass of the copy loop slept
DlIdle == [attempt |-> 0, result |-> "none", copied |-> "no",
           verifyFailed |-> FALSE, origRead |-> "no", reads |-> 0, readFails |-> 0,
           waits |-> <<>>, content |-> "none", copySleep |-> 0]
\* from: the stages whose "text += page_text" built the text now held
ExIdle == [use_temp |-> FALSE, text |-> <<>>, invoked |-> {}, enoughA |-> FALSE,
           enoughB |-> FALSE, cleanup |-> "none", returned |-> FALSE, hardStop |-> FALSE,
           from |-> {}]
\* unnamed: set while main passes from a failed generate_filename to the
\* next file; unnamedDest: the dest_folder main held then
NmIdle == [override |-> FALSE, suggested |-> <<>>, original |-> <<>>, current |-> <<>>,
           unnamed |-> FALSE, unnamedDest |-> None]
MvIdle == [called |-> FALSE, result |-> FALSE, collided |-> FALSE, relocated |-> FALSE,
           source |-> <<>>, dest |-> <<>>, category |-> None, subcategory |-> None]
HistIdle == [started |-> FALSE, extracted |-> "pending", classifyCalls |-> 0,
             nameCalls |-> 0, renames |-> 0, moves |-> 0, rows |-> 0]

\* unchanged groups
mainLocals == <<file_contents, response, category, subcategory, dest_folder, nm, mv>>
disk == <<fs, auditFile, now, logged>>

\* ensure_file_downloaded as a step function.  A call is at st = [pc, dl,
\* scratch]; each step takes what the environment did to it and gives the
\* next st.

\* What the probe, the materialization request, a copy, the re-read of the
\* original, an unlink and a direct read may do
ProbeOutcomes == {"yes", "no", "probe_failed"}
BrctlOutcomes == {"ok", "nonzero", "missing", "error"}
CopyOutcomes == {"ok_data", "ok_empty", "fail", "fail_created"}
ReadOutcomes == {"data", "empty", "fail"}

\* A call that believes the probe
ProbeStep_TrustsProbe(st, downloaded) ==
    IF downloaded = "yes"
    THEN [st EXCEPT !.pc = "ex_begin", !.dl.result = "True"]
    ELSE [st EXCEPT !.pc = "dl_brctl"]

\* lines 163-167: the extended-attribute probe; its answer is only logged
ProbeStep(st, downloaded) == [st EXCEPT !.pc = "dl_brctl"]

\* lines 169-190: the materialization request; its outcome is only logged
BrctlStep(st, brctl) == [st EXCEPT !.pc = "dl_copy"]

\* time.sleep(2) between two copy attempts
CopyRetryDelay == 2

\* A copy loop that allows one attempt more
CopyRetryLeft_OneMore(attempt) == attempt < max_copy_retries

\* May another copy attempt follow a failed one?
CopyRetryLeft(attempt) == attempt < max_copy_retries - 1

\* lines 203-214: one pass of the copy loop.  A successful copy holds what the
\* original holds; a failed one may leave a created, empty target behind.
CopyStep(st, o) ==
    CASE o = "ok_data" ->
           [pc |-> "dl_verify", scratch |-> "data",
            dl |-> [st.dl EXCEPT !.copied = "data", !.attempt = 0, !.copySleep = 0]]
      [] o = "ok_empty" ->
           [pc |-> "dl_verify", scratch |-> "empty",
            dl |-> [st.dl EXCEPT !.copied = "empty", !.attempt = 0, !.copySleep = 0]]
      [] OTHER ->
           LET left == IF o = "fail_created" THEN "empty" ELSE st.scratch
           IN IF CopyRetryLeft(st.dl.attempt)
              THEN [pc |-> "dl_copy", scratch |-> left,
                    dl |-> [st.dl EXCEPT !.attempt = @ + 1,
                                         !.copySleep = CopyRetryDelay]]
              ELSE [pc |-> "dl_cleanup", scratch |-> left,
                    dl |-> [st.dl EXCEPT !.attempt = 0, !.copySleep = 0]]

\* lines 216-240: verify the scratch copy, then try the original again
VerifyStep(st, readable, unlinked) ==
    IF st.scratch = "data"
    THEN IF readable /\ unlinked
         THEN [pc |-> "ex_begin", scratch |-> "absent",
               dl |-> [st.dl EXCEPT !.result = "True", !.origRead = "ok"]]
         ELSE \* the read, or the unlink after it, raised (line 231)
              [pc |-> "ex_begin", scratch |-> st.scratch,
               dl |-> [st.dl EXCEPT !.result = "Scratch",
                                    !.origRead = IF readable THEN "ok" ELSE "failed"]]
    ELSE IF unlinked
         THEN [pc |-> "ex_begin", scratch |-> "absent",
               dl |-> [st.dl EXCEPT !.result = "False", !.verifyFailed = TRUE]]
         ELSE \* unlink raised: the handler of line 242
              [pc |-> "dl_cleanup", scratch |-> st.scratch,
               dl |-> [st.dl EXCEPT !.verifyFailed = TRUE]]

\* lines 242-248: the handler of the copy method; a failed unlink is swallowed
CleanupStep(st, unlinked) ==
    [st EXCEPT !.pc = "dl_read",
               !.scratch = IF @ # "absent" /\ unlinked THEN "absent" ELSE @]

\* wait_time = (attempt + 1) * 2
WaitTime(attempt) == (attempt + 1) * 2

\* A read loop that gives up one attempt early
ReadRetryLeft_OneShort(attempt) == attempt < max_retries - 2

\* May another direct read follow a failed one?
ReadRetryLeft(attempt) == attempt < max_retries - 1

\* What a direct read that raised nothing returns, given the bytes it read
DirectReadResult(bytes) == "True"

\* lines 250-291: one pass of the direct-read loop
ReadStep(st, o) ==
    IF o # "fail"
    THEN [st EXCEPT !.pc = "ex_begin",
                    !.dl = [@ EXCEPT !.result = DirectReadResult(o), !.reads = @ + 1,
                                     !.content = o]]
    ELSE IF ReadRetryLeft(st.dl.reads)
         THEN [st EXCEPT !.dl = [@ EXCEPT !.reads = @ + 1, !.readFails = @ + 1,
                                          !.waits = Append(@, WaitTime(st.dl.reads))]]
         ELSE [st EXCEPT !.pc = "ex_begin",
                         !.dl = [@ EXCEPT !.reads = @ + 1, !.readFails = @ + 1,
                                          !.result = "False"]]

\* The positions of a call that has not returned
DlPositions == {"dl_probe", "dl_brctl", "dl_copy", "dl_verify", "dl_cleanup", "dl_read"}

\* The call of the run, and the step st that takes it on
Call == [pc |-> pc, dl |-> dl, scratch |-> scratch]
Becomes(st) == pc' = st.pc /\ dl' = st.dl /\ scratch' = st.scratch

DlProbe ==
    /\ pc = "dl_probe"
    /\ \E downloaded \in ProbeOutcomes : Becomes(ProbeStep(Call, downloaded))
    /\ UNCHANGED <<idx, pdf_files, ex, hist, mainLocals, disk>>

DlBrctl ==
    /\ pc = "dl_brctl"
    /\ \E brctl \in BrctlOutcomes : Becomes(BrctlStep(Call, brctl))
    /\ UNCHANGED <<idx, pdf_files, ex, hist, mainLocals, disk>>

DlCopy ==
    /\ pc = "dl_copy"
    /\ \E o \in CopyOutcomes : Becomes(CopyStep(Call, o))
    /\ UNCHANGED <<idx, pdf_files, ex, hist, mainLocals, disk>>

DlVerify ==
    /\ pc = "dl_verify"
    /\ \E readable \in BOOLEAN, unlinked \in BOOLEAN :
         Becomes(VerifyStep(Call, readable, unlinked))
    /\ UNCHANGED <<idx, pdf_files, ex, hist, mainLocals, disk>>

DlCleanup ==
    /\ pc = "dl_cleanup"
    /\ \E unlinked \in BOOLEAN : Becomes(CleanupStep(Call, unlinked))
    /\ UNCHANGED <<idx, pdf_files, ex, hist, mainLocals, disk>>

DlRead ==
    /\ pc = "dl_read"
    /\ \E o \in ReadOutcomes : Becomes(ReadStep(Call, o))
    /\ UNCHANGED <<idx, pdf_files, ex, hist, mainLocals, disk>>
-----------------------------------------------------------------------------
(* extract_text_from_pdf *)

\* The minimum-viable-text threshold of lines 353 and 370
MinViableText == 50

\* What page.extract_text() / image_to_string() may return for one page;
\* None stands for a call that raises.
Text24 == Rep("x", 24)
Text25 == Rep("x", 25)
PageTexts == {<<>>, Text24, Text25}
PageOutcomes == {None} \cup {Some(t) : t \in PageTexts}
PageRuns == SeqsUpTo(PageOutcomes, MaxPages)

\* if page_text: text += page_text + "\n"
AddPage(text, page_text) ==
    IF page_text # <<>> THEN text \o page_text \o <<NL>> ELSE text

\* The page loop of lines 326-333: a page that raises is logged and skipped
RECURSIVE AccumSkip(_, _)
AccumSkip(text, ps) ==
    IF ps = <<>> THEN text
    ELSE AccumSkip(IF Head(ps).some THEN AddPage(text, Head(ps).val) ELSE text, Tail(ps))

\* A page loop with no handler of its own: the first page that raises ends it
RECURSIVE AccumStrict(_, _)
AccumStrict(text, ps) ==
    IF ps = <<>> THEN [text |-> text, ok |-> TRUE]
    ELSE IF ~Head(ps).some THEN [text |-> text, ok |-> FALSE]
    ELSE AccumStrict(AddPage(text, Head(ps).val), Tail(ps))

\* A threshold test that also rejects a text of exactly 50 characters
NeedsMoreText_Inclusive(text) == Len(Strip(text)) <= MinViableText

\* len(text.strip()) < 50
NeedsMoreText(text) == Len(Strip(text)) < MinViableText

\* How a run of PyPDF2 over the document may go: the library may be missing;
\* the first pass may raise outside the page handler after abortAt pages
\* (-1: it does not; 0: opening the file or building the reader raised); the
\* retry may fail to open the file.
StageAOutcomes ==
    {[avail |-> FALSE, pages |-> <<>>, abortAt |-> -1, retryOpens |-> FALSE]}
    \cup {[avail |-> TRUE, pages |-> ps, abortAt |-> -1, retryOpens |-> FALSE] :
            ps \in PageRuns}
    \cup {[avail |-> TRUE, pages |-> ps, abortAt |-> 0, retryOpens |-> TRUE] :
            ps \in PageRuns}
    \cup {[avail |-> TRUE, pages |-> <<>>, abortAt |-> 0, retryOpens |-> FALSE]}

\* lines 317-350: the text held after Stage A
PyPDF2Text(o) ==
    IF ~o.avail THEN <<>>
    ELSE IF o.abortAt < 0 \/ o.abortAt > Len(o.pages) THEN AccumSkip(<<>>, o.pages)
    ELSE LET first == AccumSkip(<<>>, SubSeq(o.pages, 1, o.abortAt))
         IN IF o.retryOpens THEN AccumStrict(first, o.pages).text ELSE first

\* How a run of pdfplumber (or of the rasteriser and tesseract) may go
StageOutcomes ==
    {[avail |-> FALSE, opens |-> FALSE, pages |-> <<>>],
     [avail |-> TRUE, opens |-> FALSE, pages |-> <<>>]}
    \cup {[avail |-> TRUE, opens |-> TRUE, pages |-> ps] : ps \in PageRuns}

\* lines 354-367: the text held after Stage B, given the text held before it
PdfplumberText(text, o) ==
    IF ~o.avail \/ ~o.opens THEN text ELSE AccumStrict(<<>>, o.pages).text

\* A Stage B that appends to the text it finds
PdfplumberRun_Appending(held, o) ==
    IF ~o.avail \/ ~o.opens THEN held
    ELSE LET t == AccumStrict(held.text, o.pages).text
         IN [text |-> t, from |-> held.from \cup (IF t # held.text THEN {"B"} ELSE {})]

\* lines 354-367 on the text and the stages that built it: the "text = \"\""
\* of line 358 is reached when pdfplumber is there and opens the document
PdfplumberRun(held, o) ==
    LET t == PdfplumberText(held.text, o)
    IN [text |-> t,
        from |-> IF ~o.avail \/ ~o.opens THEN held.from
                 ELSE IF t # <<>> THEN {"B"} ELSE {}]

\* lines 372-413: the stages that built the text held when Stage C is over;
\* the "text = \"\"" of line 407 is reached when the pages were rendered
OcrFrom(from, o) ==
    IF ~o.avail \/ ~o.opens THEN from
    ELSE IF AccumStrict(<<>>, o.pages).text # <<>> THEN {"C"} ELSE {}

\* A Stage C whose handlers return the text held so far
OcrText_PartialReturned(text, o) ==
    IF ~o.avail \/ ~o.opens THEN [text |-> Strip(text), stop |-> TRUE, held |-> text]
    ELSE LET r == AccumStrict(<<>>, o.pages)
         IN IF r.ok THEN [text |-> r.text, stop |-> FALSE, held |-> r.text]
            ELSE [text |-> Strip(r.text), stop |-> TRUE, held |-> r.text]

\* lines 372-422: Stage C; stop says that extract_text_from_pdf returns at
\* once, text being what it returns then (lines 417, 422); held is what the
\* local text holds when Stage C is over
OcrText(text, o) ==
    IF ~o.avail \/ ~o.opens THEN [text |-> <<>>, stop |-> TRUE, held |-> text]
    ELSE LET r == AccumStrict(<<>>, o.pages)
         IN IF r.ok THEN [text |-> r.text, stop |-> FALSE, held |-> r.text]
            ELSE [text |-> <<>>, stop |-> TRUE, held |-> r.text]

\* lines 301-315: the dispatch on ensure_file_downloaded's result
ExBegin ==
    /\ pc = "ex_begin"
    /\ IF dl.result = "False"
       THEN /\ file_contents' = <<>>
            /\ ex' = [ex EXCEPT !.returned = TRUE]
            /\ pc' = "m_check"
       ELSE /\ ex' = [ex EXCEPT !.use_temp = (dl.result = "Scratch")]
            /\ pc' = "ex_pypdf2"
            /\ UNCHANGED file_contents
    /\ dl' = DlIdle
    /\ scratch' = IF dl.result = "Scratch" THEN scratch ELSE "absent"
    /\ UNCHANGED <<idx, pdf_files, hist, response, category, subcategory,
                   dest_folder, nm, mv, disk>>

\* lines 317-350: Stage A
ExPyPDF2 ==
    /\ pc = "ex_pypdf2"
    /\ \E o \in StageAOutcomes :
         LET t == PyPDF2Text(o)
         IN ex' = [ex EXCEPT !.text = t, !.invoked = @ \cup {"A"},
                             !.enoughA = (Len(Strip(t)) >= MinViableText),
                             !.from = IF t # <<>> THEN {"A"} ELSE {}]
    /\ pc' = "ex_pdfplumber"
    /\ UNCHANGED <<idx, pdf_files, scratch, dl, hist, mainLocals, disk>>

\* lines 352-367: Stage B, or the jump over it
ExPdfplumber ==
    /\ pc = "ex_pdfplumber"
    /\ IF NeedsMoreText(ex.text)
       THEN \E o \in StageOutcomes :
              LET r == PdfplumberRun([text |-> ex.text, from |-> ex.from], o)
              IN ex' = [ex EXCEPT !.text = r.text, !.from = r.from,
                                  !.invoked = @ \cup {"B"},
                                  !.enoughB = (Len(Strip(r.text)) >= MinViableText)]
       ELSE ex' = ex
    /\ pc' = "ex_ocr"
    /\ UNCHANGED <<idx, pdf_files, scratch, dl, hist, mainLocals, disk>>

\* lines 369-422: Stage C, or the jump over it.  The two returns of lines 417
\* and 422 leave the function at once.
ExOcr ==
    /\ pc = "ex_ocr"
    /\ IF NeedsMoreText(ex.text)
       THEN \E o \in StageOutcomes :
              LET r == OcrText(ex.text, o)
              IN IF r.stop
                 THEN /\ ex' = [ex EXCEPT !.text = r.held, !.invoked = @ \cup {"C"},
                                          !.from = OcrFrom(ex.from, o),
                                          !.hardStop = TRUE, !.returned = TRUE]
                      /\ file_contents' = r.text
                      /\ pc' = "m_check"
                 ELSE /\ ex' = [ex EXCEPT !.text = r.text, !.invoked = @ \cup {"C"},
                                          !.from = OcrFrom(ex.from, o)]
                      /\ pc' = "ex_cleanup"
                      /\ UNCHANGED file_contents
       ELSE /\ ex' = ex
            /\ pc' = "ex_cleanup"
            /\ UNCHANGED file_contents
    /\ UNCHANGED <<idx, pdf_files, scratch, dl, hist, response, category, subcategory,
                   dest_folder, nm, mv, disk>>

\* lines 424-434: delete the scratch copy when one was used, return text.strip()
ExCleanup ==
    /\ pc = "ex_cleanup"
    /\ IF ex.use_temp /\ scratch # "absent"
       THEN \E unlinked \in BOOLEAN :
              /\ scratch' = IF unlinked THEN "absent" ELSE scratch
              /\ ex' = [ex EXCEPT !.cleanup = IF unlinked THEN "deleted" ELSE "failed",
                                  !.returned = TRUE, !.text = <<>>]
       ELSE /\ scratch' = scratch
            /\ ex' = [ex EXCEPT !.returned = TRUE, !.text = <<>>]
    /\ file_contents' = Strip(ex.text)
    /\ pc' = "m_check"
    /\ UNCHANGED <<idx, pdf_files, dl, hist, response, category, subcategory,
                   dest_folder, nm, mv, disk>>
-----------------------------------------------------------------------------
(* main *)

classification == <<response, category, subcategory, dest_folder>>

\* "continue", and the end of the loop body: on to the next listed file; the
\* loop body's locals are dead
NextFileWith(n) ==
    /\ idx' = idx + 1
    /\ pc' = "m_loop"
    /\ file_contents' = <<>>
    /\ response' = None
    /\ category' = None
    /\ subcategory' = None
    /\ dest_folder' = None
    /\ nm' = n

NextFile == NextFileWith(NmIdle)

\* lines 1075-1083: take the next file of the listing, or leave the loop
MLoop ==
    /\ pc = "m_loop"
    /\ IF idx > Len(pdf_files)
       THEN /\ pc' = "done"
            /\ UNCHANGED <<hist, nm, now>>
       ELSE /\ pc' = "dl_probe"
            /\ hist' = [hist EXCEPT ![idx].started = TRUE]
            /\ nm' = [NmIdle EXCEPT !.original = pdf_files[idx], !.current = pdf_files[idx]]
            /\ now' = now + 1
    /\ dl' = DlIdle
    /\ ex' = ExIdle
    /\ mv' = MvIdle
    /\ scratch' = "absent"
    /\ UNCHANGED <<idx, pdf_files, fs, auditFile, logged, file_contents, classification>>

\* A driver that goes on whatever the extraction returned
HasText_Always(contents) == TRUE

\* "if not file_contents": is there text to work on?
HasText(contents) == contents # <<>>

\* lines 1084-1097: skip a file with no text; else look at its name
MCheck ==
    /\ pc = "m_check"
    /\ ex' = ExIdle
    /\ scratch' = "absent"
    /\ hist' = [hist EXCEPT ![idx].extracted =
                                IF file_contents = <<>> THEN "empty" ELSE "text"]
    /\ IF ~HasText(file_contents)
       THEN NextFile
       ELSE /\ nm' = [nm EXCEPT !.override = MatchesDatePattern(pdf_files[idx])]
            /\ pc' = "m_classify"
            /\ UNCHANGED <<idx, file_contents, classification>>
    /\ UNCHANGED <<pdf_files, dl, mv, disk>>

\* A driver that files a document without a category under the catch-all folder
DestFolder_MiscWhenNone(cat, sub) ==
    IF Truthy(cat) THEN Some(get_folder_path_for_category(cat.val, sub))
    ELSE Some(MiscFolder)

\* A driver that resolves only the categories of the taxonomy
DestFolder_KeysOnly(cat, sub) ==
    IF Truthy(cat) /\ cat.val \in CategoryKeys
    THEN Some(get_folder_path_for_category(cat.val, sub))
    ELSE None

\* dest_folder as main computes it from the classification
DestFolder(cat, sub) ==
    IF Truthy(cat) THEN Some(get_folder_path_for_category(cat.val, sub)) ELSE None

\* lines 1101-1117 and 1126-1136: classify; on the override path a failed
\* classification ends the file's processing
MClassify ==
    /\ pc = "m_classify"
    /\ \E r \in MainResponses :
         LET c == classify_file_category(r)
         IN IF nm.override /\ ~Truthy(c[1])
            THEN NextFile
            ELSE /\ response' = r
                 /\ category' = c[1]
                 /\ subcategory' = c[2]
                 /\ dest_folder' = DestFolder(c[1], c[2])
                 /\ pc' = IF nm.override THEN "m_move" ELSE "m_genname"
                 /\ UNCHANGED <<idx, file_contents, nm>>
    /\ hist' = [hist EXCEPT ![idx].classifyCalls = @ + 1]
    /\ UNCHANGED <<pdf_files, scratch, dl, ex, mv, disk>>

\* A driver that gives up on a failed call only
NameMissing_NoneOnly(suggested_filename) == ~suggested_filename.some

\* "if not suggested_filename"
NameMissing(suggested_filename) == ~Truthy(suggested_filename)

\* lines 1138-1150: ask for a name; without one the file is left as it is
MGenerateFilename ==
    /\ pc = "m_genname"
    /\ \E g \in Suggestions :
         LET suggested_filename == call_chatgpt_shortcut(g)
         IN IF NameMissing(suggested_filename)
            THEN NextFileWith([NmIdle EXCEPT !.unnamed = TRUE,
                                             !.unnamedDest = dest_folder])
            ELSE /\ nm' = [nm EXCEPT !.suggested =
                                       CleanSuggestedFilename(suggested_filename.val)]
                 /\ pc' = "m_rename"
                 /\ UNCHANGED <<idx, file_contents, classification>>
    /\ hist' = [hist EXCEPT ![idx].nameCalls = @ + 1]
    /\ UNCHANGED <<pdf_files, scratch, dl, ex, mv, disk>>

\* A rename that never looks for a file under the new name
RenameBlocked_Never(f, name, suggested) == FALSE

\* new_file_path.exists() and new_file_path != pdf_file
RenameBlocked(f, name, suggested) == Exists(f, Inbox, suggested) /\ suggested # name

\* Path.exists() outside any try block: stat() failing with ENAMETOOLONG is
\* not among the errors pathlib swallows, so the call raises
ExistsRaises(name) == Len(name) > NAME_MAX

\* lines 1189-1200: an exception left the loop body; the run is over
Fatal ==
    /\ pc' = "done"
    /\ file_contents' = <<>>
    /\ response' = None
    /\ category' = None
    /\ subcategory' = None
    /\ dest_folder' = None
    /\ nm' = NmIdle
    /\ UNCHANGED idx

\* After the renaming step: line 1181
AfterRename(current) ==
    IF dest_folder.some
    THEN /\ nm' = [nm EXCEPT !.current = current]
         /\ pc' = "m_move"
         /\ UNCHANGED <<idx, file_contents, classification>>
    ELSE NextFile

\* lines 1152-1185: rename in place when the name differs and is free; the
\* existence test of line 1168 stands outside the try of line 1171
MRename ==
    /\ pc = "m_rename"
    /\ LET name == pdf_files[idx] IN
       IF name = nm.suggested
       THEN /\ AfterRename(name)
            /\ UNCHANGED <<fs, hist>>
       ELSE IF ExistsRaises(nm.suggested)
       THEN /\ Fatal
            /\ UNCHANGED <<fs, hist>>
       ELSE IF RenameBlocked(fs, name, nm.suggested)
       THEN /\ AfterRename(name)
            /\ UNCHANGED <<fs, hist>>
       ELSE \E renamed \in BOOLEAN :
              IF renamed
              THEN /\ fs' = Rename(fs, Inbox, name, Inbox, nm.suggested)
                   /\ hist' = [hist EXCEPT ![idx].renames = @ + 1]
                   /\ AfterRename(nm.suggested)
              ELSE /\ AfterRename(name)
                   /\ UNCHANGED <<fs, hist>>
    /\ UNCHANGED <<pdf_files, scratch, auditFile, now, logged, dl, ex, mv>>

\* A move that never looks at the destination
MoveCollides_Unchecked(f, dest, name) == FALSE

\* dest_file.exists() and dest_file != source_file
MoveCollides(f, dest, name) ==
    Exists(f, dest, name) /\ Entry(dest, name, 0) # Entry(Inbox, name, 0)

\* Did the new entry reach the audit file under log outcome o?
RowWritten(o) == o[1] = "ok" \/ (o[1] = "write_error" /\ o[2] >= 2)

\* The call as main makes it
MoveCall == [MvIdle EXCEPT !.called = TRUE, !.source = nm.current,
                           !.dest = dest_folder.val, !.category = category,
                           !.subcategory = subcategory]

\* lines 882-897 and 914-917: the move is refused or raised; False is returned
\* and main goes on to the next file
MoveFailed(collided) ==
    /\ mv' = [MoveCall EXCEPT !.collided = collided]
    /\ UNCHANGED <<fs, auditFile, logged, hist>>
    /\ NextFile

\* lines 868-917: move_file_to_destination, called from line 1112 or 1183
MMove ==
    /\ pc = "m_move"
    /\ LET dest == dest_folder.val
           name == nm.current
           old_filename == IF nm.original # <<>> THEN nm.original ELSE name
       IN \E made \in BOOLEAN :
            IF ~made
            THEN MoveFailed(FALSE)       \* mkdir raised
            ELSE IF MoveCollides(fs, dest, name)
            THEN MoveFailed(TRUE)
            ELSE \E moved \in BOOLEAN :
                 IF ~moved
                 THEN MoveFailed(FALSE)  \* rename raised
                 ELSE LET entry == DataRow(now, old_filename, name, dest)
                      IN \E o \in LogOutcomes(auditFile, entry) :
                           /\ fs' = Rename(fs, Inbox, name, dest, name)
                           /\ auditFile' = log_file_move(auditFile, entry, o)
                           /\ logged' = IF o[1] = "ok" THEN Append(logged, entry)
                                        ELSE logged
                           /\ mv' = [MoveCall EXCEPT !.result = (o[1] = "ok"),
                                                     !.relocated = TRUE]
                           /\ hist' = [hist EXCEPT ![idx].moves = @ + 1,
                                         ![idx].rows = @ + (IF RowWritten(o) THEN 1 ELSE 0)]
                           /\ NextFile
    /\ UNCHANGED <<pdf_files, scratch, now, dl, ex>>

-----------------------------------------------------------------------------
\* The listings glob may return: NumFiles distinct names, in any order
Listings == {l \in [Docs -> InitialNames] : \A i, j \in Docs : i # j => l[i] # l[j]}

\* A file a previous run may have filed, and the audit row of that move
PriorFiled == Entry(MedicalOliverFolder, Dated, Foreign)
PriorRow == DataRow(0, Scan001, Dated, MedicalOliverFolder)

Init ==
    /\ pc = "m_loop"
    /\ idx = 1
    /\ pdf_files \in Listings
    /\ \E prior \in BOOLEAN :
         /\ fs = {Entry(Inbox, pdf_files[d], d) : d \in Docs}
                 \cup (IF prior THEN {PriorFiled} ELSE {})
         /\ auditFile = IF prior THEN Some(<<HeaderRow, PriorRow>>) ELSE None
    /\ scratch = "absent"
    /\ now = 0
    /\ dl = DlIdle
    /\ ex = ExIdle
    /\ file_contents = <<>>
    /\ response = None
    /\ category = None
    /\ subcategory = None
    /\ dest_folder = None
    /\ nm = NmIdle
    /\ mv = MvIdle
    /\ hist = [d \in Docs |-> HistIdle]
    /\ logged = <<>>

Next ==
    \/ MLoop
    \/ DlProbe
    \/ DlBrctl
    \/ DlCopy
    \/ DlVerify
    \/ DlCleanup
    \/ DlRead
    \/ ExBegin
    \/ ExPyPDF2
    \/ ExPdfplumber
    \/ ExOcr
    \/ ExCleanup
    \/ MCheck
    \/ MClassify
    \/ MGenerateFilename
    \/ MRename
    \/ MMove

Spec == Init /\ [][Next]_vars

-----------------------------------------------------------------------------
(* The response parser on its own: one answer, parsed and resolved. *)

ParseWords == {<<>>, <<"Financial">>, <<"Bills">>, <<"Cards">>, <<"Sams Club">>,
               <<"Electric">>, <<"Misc">>, <<"Medical">>, <<"Oliver">>}
\* Answers of 1..MaxParts slash-separated parts
PlainAnswers == {Join(ps, SL) : ps \in UNION {[1..k -> ParseWords] : k \in 1..MaxParts}}
SamsClubAnswer == <<"Financial", SL, "Cards", SL, "Sams Club">>
\* Blanks and quotes around an answer
Wrappers == SeqsUpTo({SP, Q1, Q2}, MaxWrap)
WrappedAnswers == {pre \o SamsClubAnswer \o post : pre \in Wrappers, post \in Wrappers}
ParseInputs == {None} \cup {Some(a) : a \in PlainAnswers \cup WrappedAnswers}

IdleRun ==
    /\ idx = 1
    /\ pdf_files = <<>>
    /\ fs = {}
    /\ scratch = "absent"
    /\ now = 0
    /\ dl = DlIdle
    /\ ex = ExIdle
    /\ file_contents = <<>>
    /\ nm = NmIdle
    /\ mv = MvIdle
    /\ hist = <<>>
    /\ logged = <<>>

IdleLocals ==
    /\ IdleRun
    /\ category = None
    /\ subcategory = None
    /\ dest_folder = None

InitParse ==
    /\ pc = "parse"
    /\ response \in ParseInputs
    /\ auditFile = None
    /\ IdleLocals

\* lines 805-832 followed by lines 1102-1108: parse the answer, resolve the folder
ParseAnswer ==
    /\ pc = "parse"
    /\ LET c == classify_file_category(response)
       IN /\ category' = c[1]
          /\ subcategory' = c[2]
          /\ dest_folder' = DestFolder(c[1], c[2])
    /\ pc' = "parsed"
    /\ UNCHANGED <<idx, pdf_files, fs, scratch, auditFile, now, dl, ex, file_contents,
                   response, nm, mv, hist, logged>>

SpecParse == InitParse /\ [][ParseAnswer]_vars

-----------------------------------------------------------------------------
(* The audit log on its own: calls of log_file_move that return. *)

LogEntryFields == {<<old, new, dest>> : old \in {Scan001, NearDated}, new \in {Scan001, Dated},
                                        dest \in {MedicalOliverFolder, MiscFolder}}

InitLog ==
    /\ pc = "log"
    /\ auditFile = None
    /\ response = None
    /\ IdleLocals

\* lines 835-865: one call of log_file_move that returns
LogCall ==
    /\ pc = "log"
    /\ Len(logged) < MaxLog
    /\ \E e \in LogEntryFields :
         LET entry == DataRow(now + 1, e[1], e[2], e[3])
         IN /\ auditFile' = log_file_move(auditFile, entry, <<"ok", 0>>)
            /\ logged' = Append(logged, entry)
    /\ now' = now + 1
    /\ UNCHANGED <<pc, idx, pdf_files, fs, scratch, dl, ex, file_contents, response,
                   category, subcategory, dest_folder, nm, mv, hist>>

SpecLog == InitLog /\ [][LogCall]_vars

-----------------------------------------------------------------------------
(* The folder table on its own: one category and subcategory, resolved. *)

\* Categories outside the taxonomy: without a slash, behind a known top-level
\* name, behind an unknown one
UnknownCategories ==
    {<<"Invoices">>, <<"Financial">>, <<"Kids">>, <<"Medical ">>,
     Cat2("Financial", "Crypto"), Cat2("Kids", "Camp"), Cat2("Personal", "Diary"),
     Cat2("Purchases", "Gifts"), Cat2("Medical", "Oliver"), Cat2("Career", "Resumes"),
     Cat2("Travel", "2025"), <<"Financial", SL>>}
FolderCategories == CategoryKeys \cup UnknownCategories
FolderSubcategories ==
    {None, Some(<<>>), Some(<<"Oliver">>), Some(<<"Sams Club">>), Some(<<"2025">>)}

InitFolder ==
    /\ pc = "resolve"
    /\ category \in {Some(c) : c \in FolderCategories}
    /\ subcategory \in FolderSubcategories
    /\ dest_folder = None
    /\ response = None
    /\ auditFile = None
    /\ IdleRun

\* lines 540-626: one call of get_folder_path_for_category
ResolveFolder ==
    /\ pc = "resolve"
    /\ dest_folder' = Some(get_folder_path_for_category(category.val, subcategory))
    /\ pc' = "resolved"
    /\ UNCHANGED <<idx, pdf_files, fs, scratch, auditFile, now, dl, ex, file_contents,
                   response, category, subcategory, nm, mv, hist, logged>>

SpecFolder == InitFolder /\ [][ResolveFolder]_vars

-----------------------------------------------------------------------------
(* Two calls of ensure_file_downloaded side by side, on files the copies and
   reads treat alike.  Here pc, dl and scratch each hold a pair, one
   component per call. *)

\* What the environment does to one step: the step taken picks what it needs
IoOutcomes == [copy : CopyOutcomes, readable : BOOLEAN, unlinked : BOOLEAN,
               read : ReadOutcomes]

\* One step of a call under probe answer downloaded, brctl outcome brctl and
\* the copy, unlink and read outcomes io
EnsureStep(st, downloaded, brctl, io) ==
    CASE st.pc = "dl_probe"   -> ProbeStep(st, downloaded)
      [] st.pc = "dl_brctl"   -> BrctlStep(st, brctl)
      [] st.pc = "dl_copy"    -> CopyStep(st, io.copy)
      [] st.pc = "dl_verify"  -> VerifyStep(st, io.readable, io.unlinked)
      [] st.pc = "dl_cleanup" -> CleanupStep(st, io.unlinked)
      [] st.pc = "dl_read"    -> ReadStep(st, io.read)
      [] OTHER                -> st

CallOf(i) == [pc |-> pc[i], dl |-> dl[i], scratch |-> scratch[i]]

\* The scratch path may hold what an earlier run left there
InitPair ==
    /\ pc = <<"dl_probe", "dl_probe">>
    /\ dl = <<DlIdle, DlIdle>>
    /\ \E left \in {"absent", "empty", "data"} : scratch = <<left, left>>
    /\ ex = ExIdle
    /\ idx = 1
    /\ pdf_files = <<>>
    /\ fs = {}
    /\ auditFile = None
    /\ now = 0
    /\ file_contents = <<>>
    /\ response = None
    /\ category = None
    /\ subcategory = None
    /\ dest_folder = None
    /\ nm = NmIdle
    /\ mv = MvIdle
    /\ hist = <<>>
    /\ logged = <<>>

\* Both calls take a step: the probe and brctl outcomes are each call's own,
\* the copies, unlinks and reads go the same way for both
PairStep ==
    /\ \E i \in 1..2 : pc[i] \in DlPositions
    /\ \E d1, d2 \in ProbeOutcomes, b1, b2 \in BrctlOutcomes, io \in IoOutcomes :
         LET st1 == EnsureStep(CallOf(1), d1, b1, io)
             st2 == EnsureStep(CallOf(2), d2, b2, io)
         IN /\ pc' = <<st1.pc, st2.pc>>
            /\ dl' = <<st1.dl, st2.dl>>
            /\ scratch' = <<st1.scratch, st2.scratch>>
    /\ UNCHANGED <<idx, pdf_files, ex, hist, mainLocals, disk>>

SpecPair == InitPair /\ [][PairStep]_vars
-----------------------------------------------------------------------------
(* view-ocr.py: extract_text_from_pdf, called on one document *)

\* What a page may yield to the viewer: also a blank text
ViewPageTexts == PageTexts \cup {<<SP>>}
ViewPageRuns == SeqsUpTo({None} \cup {Some(t) : t \in ViewPageTexts}, MaxPages)

\* How a run of one library over the document may go
ViewOutcomes ==
    {[avail |-> FALSE, opens |-> FALSE, pages |-> <<>>],
     [avail |-> TRUE, opens |-> FALSE, pages |-> <<>>]}
    \cup {[avail |-> TRUE, opens |-> TRUE, pages |-> ps] : ps \in ViewPageRuns}

\* lines 16-17; methods: the list returned; from: the strategies whose
\* "text += page_text" built the text now held
ViewIdle == [text |-> <<>>, method_used |-> <<>>, from |-> {}, methods |-> <<>>,
             returned |-> FALSE]

\* One stage of the viewer (lines 20-33, 37-50, 55-68): the page loop has no
\* handler of its own, and "if text.strip(): method_used.append(name)" is
\* inside the try, after the loop
ViewStage(held, o, name) ==
    IF ~o.avail \/ ~o.opens THEN held
    ELSE LET r == AccumStrict(<<>>, o.pages)
         IN [held EXCEPT
               !.text = r.text,
               !.from = IF r.text # <<>> THEN {name} ELSE {},
               !.method_used = IF r.ok /\ Strip(r.text) # <<>>
                               THEN Append(@, name) ELSE @]

InitView ==
    /\ pc = "v_pypdf2"
    /\ ex = ViewIdle
    /\ idx = 1
    /\ pdf_files = <<>>
    /\ fs = {}
    /\ scratch = "absent"
    /\ auditFile = None
    /\ now = 0
    /\ dl = DlIdle
    /\ file_contents = <<>>
    /\ response = None
    /\ category = None
    /\ subcategory = None
    /\ dest_folder = None
    /\ nm = NmIdle
    /\ mv = MvIdle
    /\ hist = <<>>
    /\ logged = <<>>

\* view-ocr.py lines 19-33
ViewPyPDF2 ==
    /\ pc = "v_pypdf2"
    /\ \E o \in ViewOutcomes : ex' = ViewStage(ex, o, "PyPDF2")
    /\ pc' = "v_pdfplumber"
    /\ UNCHANGED <<idx, pdf_files, scratch, dl, hist, mainLocals, disk>>

\* view-ocr.py lines 35-50
ViewPdfplumber ==
    /\ pc = "v_pdfplumber"
    /\ IF NeedsMoreText(ex.text)
       THEN \E o \in ViewOutcomes : ex' = ViewStage(ex, o, "pdfplumber")
       ELSE ex' = ex
    /\ pc' = "v_ocr"
    /\ UNCHANGED <<idx, pdf_files, scratch, dl, hist, mainLocals, disk>>

\* view-ocr.py lines 52-77: Stage C and the return
ViewOcr ==
    /\ pc = "v_ocr"
    /\ IF NeedsMoreText(ex.text)
       THEN \E o \in ViewOutcomes :
              LET r == ViewStage(ex, o, "OCR (Tesseract)")
              IN IF ~o.avail \/ ~o.opens \/ ~AccumStrict(<<>>, o.pages).ok
                 THEN /\ ex' = [r EXCEPT !.returned = TRUE, !.methods = <<>>]
                      /\ file_contents' = <<>>
                 ELSE /\ ex' = [r EXCEPT !.returned = TRUE, !.methods = r.method_used]
                      /\ file_contents' = Strip(r.text)
       ELSE /\ ex' = [ex EXCEPT !.returned = TRUE, !.methods = ex.method_used]
            /\ file_contents' = Strip(ex.text)
    /\ pc' = "v_done"
    /\ UNCHANGED <<idx, pdf_files, scratch, dl, hist, response, category, subcategory,
                   dest_folder, nm, mv, disk>>

SpecView == InitView /\ [][ViewPyPDF2 \/ ViewPdfplumber \/ ViewOcr]_vars
-----------------------------------------------------------------------------
(* The properties. *)

\* C1: within one extraction a later stage is entered only if the text held
\* after the stage before it has fewer than 50 characters once trimmed; when
\* Stage A leaves at least 50 trimmed characters neither Stage B nor Stage C
\* is entered.
C1_CascadeShortCircuit ==
    /\ ("B" \in ex.invoked => "A" \in ex.invoked /\ ~ex.enoughA)
    /\ ("C" \in ex.invoked => "B" \in ex.invoked /\ ~ex.enoughB)
    /\ (ex.enoughA => ex.invoked \subseteq {"A"})

\* An extraction has returned after Stage A alone, which left exactly 50
\* trimmed characters
C1_Witness ==
    /\ pc = "m_check"
    /\ ex.returned /\ ex.enoughA /\ ex.invoked = {"A"}
    /\ Len(file_contents) = MinViableText

\* C2: the answer, cleaned of blanks and quotes as the parser cleans it, is
\* parsed by the longest-known-prefix rule: with two or more slash-separated
\* parts, when Part0/Part1 is a key of CATEGORY_STRUCTURE it is the category
\* and the rest joined by "/" is the subcategory (None when there is no rest),
\* otherwise Part0 is the category and the rest joined by "/" the
\* subcategory; with no slash the result is (answer, None).
C2_LongestKnownPrefix ==
    (pc = "parsed" /\ Truthy(call_chatgpt_shortcut(response))) =>
        LET cleaned == CleanQuotes(response.val)
            parts == Split(cleaned, SL)
            n == Len(parts)
            rest(k) == Join(SubSeq(parts, k, n), SL)
        IN /\ (n = 1 => category = Some(cleaned) /\ subcategory = None)
           /\ (n >= 2 /\ (parts[1] \o <<SL>> \o parts[2]) \in CategoryKeys =>
                 /\ category = Some(parts[1] \o <<SL>> \o parts[2])
                 /\ subcategory = IF n = 2 THEN None ELSE Some(rest(3)))
           /\ (n >= 2 /\ (parts[1] \o <<SL>> \o parts[2]) \notin CategoryKeys =>
                 /\ category = Some(parts[1])
                 /\ subcategory = Some(rest(2)))
           /\ (response.val = <<"Financial", SL, "Bills", SL, "Electric">> =>
                 /\ category = Some(<<"Financial", SL, "Bills">>)
                 /\ subcategory = Some(<<"Electric">>))
           /\ (response.val = <<"Misc">> =>
                 /\ category = Some(<<"Misc">>)
                 /\ subcategory = None)

\* "Financial/Bills/Electric" has been parsed
C2_Witness ==
    /\ pc = "parsed"
    /\ response = Some(<<"Financial", SL, "Bills", SL, "Electric">>)
    /\ category = Some(<<"Financial", SL, "Bills">>)
    /\ subcategory = Some(<<"Electric">>)

\* C3: an answer that is Financial/Cards/Sams Club wrapped in blanks and quote
\* characters is parsed as category Financial/Cards, subcategory Sams Club,
\* and resolved to <base>/Financial/Cards/Sam's Club.
C3_WrappedSamsClub ==
    (pc = "parsed" /\ response.some /\ response.val \in WrappedAnswers) =>
        /\ category = Some(<<"Financial", SL, "Cards">>)
        /\ subcategory = Some(<<"Sams Club">>)
        /\ dest_folder = Some(DOCUMENTS_BASE_PATH
                              \o << <<"Financial">>, <<"Cards">>, <<"Sam's Club">> >>)

\* C4: a document whose name already has the form YYYY-MM-DD - x.pdf keeps
\* that name through the run: no name is asked for it, it is not renamed,
\* and when it is relocated it lies in the folder of its classification under
\* the same name (Medical/Oliver: <base>/Medical/Oliver).
C4_ManualOverrideKeepsName ==
    pc \notin {"parse", "parsed", "log"} =>
        /\ \A d \in Docs : pdf_files[d] = Dated =>
              /\ hist[d].nameCalls = 0
              /\ hist[d].renames = 0
              /\ \E e \in fs : e.doc = d
              /\ \A e \in fs : e.doc = d => e.name = Dated
        /\ (pc \in {"m_genname", "m_rename"} => pdf_files[idx] # Dated)
        /\ (mv.relocated /\ pdf_files[idx - 1] = Dated =>
              /\ Entry(get_folder_path_for_category(mv.category.val, mv.subcategory),
                       Dated, idx - 1) \in fs
              /\ (mv.category = Some(<<"Medical">>) /\ mv.subcategory = Some(<<"Oliver">>) =>
                    Entry(DOCUMENTS_BASE_PATH \o << <<"Medical">>, <<"Oliver">> >>,
                          Dated, idx - 1) \in fs))

\* A dated document classified Medical/Oliver has been relocated
C4_Witness ==
    /\ pc = "m_loop"
    /\ mv.relocated
    /\ pdf_files[idx - 1] = Dated
    /\ mv.category = Some(<<"Medical">>) /\ mv.subcategory = Some(<<"Oliver">>)
    /\ Entry(DOCUMENTS_BASE_PATH \o << <<"Medical">>, <<"Oliver">> >>, Dated, idx - 1) \in fs

\* C5: a move whose destination already holds another document under the same
\* name is refused: it returns False, the filesystem is left as it was (the
\* file stays where it was, the file at the destination is not replaced) and
\* no audit row is written.
C5_CollisionSafety ==
    [][(/\ pc = "m_move"
        /\ \E e \in fs : e.dir = dest_folder.val /\ e.name = nm.current /\ e.doc # idx)
       => (/\ fs' = fs
           /\ auditFile' = auditFile
           /\ logged' = logged
           /\ mv'.called /\ ~mv'.result /\ ~mv'.relocated)]_vars

\* A move has been refused because a document filed earlier in this run holds
\* the name at the destination
C5_Witness ==
    /\ mv.called /\ mv.collided /\ ~mv.result
    /\ \E e \in fs : e.dir = mv.dest /\ e.name = mv.source /\ e.doc \in Docs
    /\ \E e \in fs : e.dir = Inbox /\ e.name = mv.source /\ e.doc = idx - 1

\* C6: after N calls of log_file_move on an audit file that was absent, the
\* file holds the header row followed by the N entries, newest first, each
\* as it was appended.
C6_NewestFirst ==
    pc = "log" =>
        /\ (logged = <<>> => auditFile = None)
        /\ (logged # <<>> =>
              /\ auditFile.some
              /\ Len(auditFile.val) = Len(logged) + 1
              /\ auditFile.val[1] = HeaderRow
              /\ \A i \in 1..Len(logged) :
                    auditFile.val[1 + i] = logged[Len(logged) + 1 - i])

\* MaxLog entries have been appended and the last of them is the first data row
C6_Witness ==
    /\ pc = "log"
    /\ Len(logged) = MaxLog
    /\ auditFile.val[2] = logged[MaxLog]
    /\ auditFile.val[MaxLog + 1] = logged[1]

\* C7: a document whose extraction returned empty text is skipped: the
\* assistant is not called for it, it is neither renamed nor moved, it stays
\* in the inbox under its name, and no audit row is written for it.
C7_EmptyTextSkipped ==
    pc \notin {"parse", "parsed", "log"} =>
        /\ (pc \in {"m_classify", "m_genname", "m_rename", "m_move"} => file_contents # <<>>)
        /\ \A d \in Docs : hist[d].extracted = "empty" =>
              /\ hist[d].classifyCalls = 0 /\ hist[d].nameCalls = 0
              /\ hist[d].renames = 0 /\ hist[d].moves = 0 /\ hist[d].rows = 0
              /\ Entry(Inbox, pdf_files[d], d) \in fs
              /\ \A e \in fs : e.doc = d => e = Entry(Inbox, pdf_files[d], d)
              /\ \A i \in 1..Len(logged) : logged[i].old # pdf_files[d]

\* A document whose extraction returned empty text has been skipped, in a run
\* that moved another document
C7_Witness ==
    /\ pc = "m_loop"
    /\ idx > 1
    /\ hist[idx - 1].extracted = "empty"
    /\ Entry(Inbox, pdf_files[idx - 1], idx - 1) \in fs
    /\ \E d \in Docs : hist[d].moves > 0

\* C8: ensure_file_downloaded returns False only when the copy
\* attempts produced no non-empty copy and the direct reads of the original
\* were all attempted and all failed.
C8_OnlyAfterExhaustion ==
    dl.result = "False" =>
        /\ dl.copied # "data"
        /\ dl.reads = max_retries
        /\ dl.readFails = max_retries

\* C8, as the code has it: ensure_file_downloaded returns False only when no copy attempt
\* produced a non-empty copy and either a copy completed with an empty result,
\* in which case no direct read is made, or all max_retries direct reads were
\* made and failed.
C8_FalseOnlyOnEmptyCopyOrExhaustion ==
    dl.result = "False" =>
        /\ dl.copied # "data"
        /\ \/ dl.copied = "empty" /\ dl.verifyFailed /\ dl.reads = 0
           \/ dl.reads = max_retries /\ dl.readFails = max_retries

\* False has been returned straight after an empty copy
C8_Witness ==
    /\ pc = "ex_begin"
    /\ dl.result = "False"
    /\ dl.copied = "empty" /\ dl.verifyFailed /\ dl.reads = 0

\* C9: when extract_text_from_pdf worked on a scratch copy, the copy is gone,
\* or its deletion was attempted, by the time the function has returned.
C9_ScratchDeletedOnReturn ==
    (ex.returned /\ ex.use_temp) => (scratch = "absent" \/ ex.cleanup # "none")

\* C10: a failure while one file is processed does not end the run: when the
\* run is over, the processing of every listed file has been started.
C10_EveryFileStarted ==
    pc = "done" => \A d \in Docs : hist[d].started

\* Top-level names whose branch tests only the prefix of the category
PrefixTops == {"Financial", "Kids", "Personal", "Purchases"}
HasKnownPrefix(cat) == Len(cat) >= 2 /\ cat[1] \in PrefixTops /\ cat[2] = SL

\* C11: get_folder_path_for_category sends every category that is not a key
\* of CATEGORY_STRUCTURE to <base>/"Misc. ", whatever the subcategory, also
\* when the category begins with "Financial/", "Kids/", "Personal/" or
\* "Purchases/".
C11_UnknownToMisc ==
    (pc = "resolved" /\ category.val \notin CategoryKeys) =>
        dest_folder = Some(DOCUMENTS_BASE_PATH \o << <<"Misc. ">> >>)

\* C11, as the code has it: a category that is not a key goes to
\* <base>/"Misc. " unless it begins with "Financial/", "Kids/", "Personal/" or
\* "Purchases/"; behind such a prefix it goes under <base>/<top-level name>.
C11_UnknownToMiscUnlessPrefixed ==
    (pc = "resolved" /\ category.val \notin CategoryKeys) =>
        IF HasKnownPrefix(category.val)
        THEN /\ dest_folder.some
             /\ Len(dest_folder.val) >= 2
             /\ SubSeq(dest_folder.val, 1, 2) = DOCUMENTS_BASE_PATH \o << <<category.val[1]>> >>
        ELSE dest_folder = Some(DOCUMENTS_BASE_PATH \o << <<"Misc. ">> >>)

\* An unknown category behind "Financial/" has been resolved with a
\* subcategory, to a folder under <base>/Financial
C11_Witness ==
    /\ pc = "resolved"
    /\ category = Some(<<"Financial", SL, "Crypto">>)
    /\ subcategory = Some(<<"Oliver">>)
    /\ dest_folder = Some(DOCUMENTS_BASE_PATH
                          \o << <<"Financial">>, <<"Crypto">>, <<"Oliver">> >>)

\* C12: a document on the normal path for which a name was generated is
\* renamed in place only when the target name (the generated name, ending in
\* .pdf) differs from its name and no inbox file bears the target name; when
\* one does, nothing on disk changes and filing goes on under the original
\* name.
C12_RenameOnlyWhenFree ==
    [][pc = "m_rename" =>
         LET name == pdf_files[idx]
             target == nm.suggested
         IN /\ ~MatchesDatePattern(name)
            /\ EndsWith(target, DotPdf)
            /\ (fs' # fs =>
                  /\ target # name
                  /\ ~Exists(fs, Inbox, target)
                  /\ fs' = (fs \ {Entry(Inbox, name, idx)}) \cup {Entry(Inbox, target, idx)})
            /\ (target # name /\ Exists(fs, Inbox, target) =>
                  /\ fs' = fs
                  /\ (dest_folder.some => pc' = "m_move" /\ nm'.current = name
                                          /\ nm'.original = name))]_vars

\* A rename was skipped because another inbox file bears the target name, and
\* the document goes on to be filed under its own name
C12_Witness ==
    /\ pc = "m_move"
    /\ nm.suggested # <<>>
    /\ nm.suggested # nm.current
    /\ nm.current = pdf_files[idx]
    /\ \E e \in fs : e.dir = Inbox /\ e.name = nm.suggested /\ e.doc # idx

\* Data rows of the audit file written in this run (the clock starts at 0)
RowsAdded ==
    IF auditFile.some
    THEN Cardinality({i \in 1..Len(auditFile.val) :
                        ~auditFile.val[i].hdr /\ auditFile.val[i].ts > 0})
    ELSE 0
Relocated == {d \in Docs : hist[d].moves > 0}

\* C13: every relocation by move_file_to_destination puts one record at the
\* top of the audit file, holding the name the document had when the run
\* took it up, its name at the move and the destination folder (old = new for
\* a manual-override document); over a run the rows added are as many as the
\* documents relocated.
C13_OneRowPerRelocation ==
    pc \in {"m_loop", "done"} =>
        /\ (mv.relocated =>
              /\ auditFile.some
              /\ Len(auditFile.val) >= 2
              /\ auditFile.val[1] = HeaderRow
              /\ auditFile.val[2] = DataRow(now, pdf_files[idx - 1], mv.source, mv.dest)
              /\ (pdf_files[idx - 1] = Dated => mv.source = Dated))
        /\ RowsAdded = Cardinality(Relocated)

\* A step that takes a document out of the inbox or changes the audit file
FilesOrLogs ==
    \/ auditFile' # auditFile
    \/ \E e \in fs' \ fs : e.dir # Inbox

\* C14: when the classification call fails (no answer, or an empty one),
\* classify_file_category returns no category and the document is not moved
\* out of the inbox and gets no audit row, on the manual-override path and on
\* the normal path: a move is reached only with a category, and only a move
\* relocates a file or writes the audit file.
C14_FailedClassificationStays ==
    [][/\ (pc = "m_classify" /\ pc' # "m_loop" =>
              (Truthy(call_chatgpt_shortcut(response')) <=> Truthy(category')))
       /\ (pc' = "m_move" => Truthy(category') /\ dest_folder'.some)
       /\ (~Truthy(category') => dest_folder' = None)
       /\ (FilesOrLogs => pc = "m_move" /\ Truthy(category))]_vars

\* On the normal path the assistant returned a blank answer; the document has
\* no category and no destination and is still in the inbox
C14_Witness ==
    /\ pc = "m_rename"
    /\ response = Some(<<SP>>)
    /\ category = None
    /\ dest_folder = None
    /\ Entry(Inbox, pdf_files[idx], idx) \in fs

\* C15: a classification whose category is not a key of CATEGORY_STRUCTURE is
\* handled as a failed classification: the document gets no destination and
\* is not filed.
C15_UnknownTreatedAsUnclassified ==
    /\ (Truthy(category) /\ category.val \notin CategoryKeys =>
            dest_folder = None /\ pc # "m_move")
    /\ (mv.relocated => mv.category.val \in CategoryKeys)

\* C15, as the code has it: a classification whose category is not a key of
\* CATEGORY_STRUCTURE gets the catch-all folder <base>/"Misc. " as its
\* destination, and the document is filed there like any classified one.
C15_UnknownFiledUnderMisc ==
    /\ (pc \in {"m_genname", "m_rename", "m_move"}
          /\ Truthy(category) /\ category.val \notin CategoryKeys =>
            dest_folder = Some(DOCUMENTS_BASE_PATH \o << <<"Misc. ">> >>))
    /\ (mv.relocated /\ mv.category.val \notin CategoryKeys =>
            /\ mv.dest = DOCUMENTS_BASE_PATH \o << <<"Misc. ">> >>
            /\ Entry(mv.dest, mv.source, idx - 1) \in fs
            /\ \A e \in fs : e.doc = idx - 1 => e.dir # Inbox)

\* A document classified "Invoices" has been moved to the catch-all folder
C15_Witness ==
    /\ pc = "m_loop"
    /\ mv.relocated
    /\ mv.category = Some(<<"Invoices">>)
    /\ Entry(DOCUMENTS_BASE_PATH \o << <<"Misc. ">> >>, mv.source, idx - 1) \in fs

\* C16: when ensure_file_downloaded returns after a copy attempt produced a
\* non-empty scratch file, a readable original means the scratch file is
\* deleted and the result is True, and an unreadable original means the
\* result is the scratch path and the scratch file exists; on any return the
\* scratch file exists only when the result is the scratch path.
C16_ScratchOnlyWithScratchResult ==
    (pc = "ex_begin" /\ dl.result # "none") =>
        /\ (dl.copied = "data" /\ dl.origRead = "ok" =>
                dl.result = "True" /\ scratch = "absent")
        /\ (dl.copied = "data" /\ dl.origRead = "failed" =>
                dl.result = "Scratch" /\ scratch # "absent")
        /\ (scratch # "absent" => dl.result = "Scratch")

\* C17: the waits between consecutive failed direct reads of
\* ensure_file_downloaded form an exponential backoff: every wait is the
\* same multiple, at least 2, of the wait before it.
C17_ExponentialBackoff ==
    \E k \in 2..WaitTime(max_retries) :
        \A i \in 2..Len(dl.waits) : dl.waits[i] = k * dl.waits[i - 1]

\* C18: a direct read of the original that raises nothing but yields zero
\* bytes makes ensure_file_downloaded return False, not True.
C18_ZeroByteReadUnavailable ==
    (pc = "ex_begin" /\ dl.content = "empty") => dl.result = "False"

\* Positions inside ensure_file_downloaded, as the rank sees them
DlPcs == {"dl_probe", "dl_brctl", "dl_copy", "dl_verify", "dl_cleanup", "dl_read"}

\* A rank of the positions inside ensure_file_downloaded: the steps the call
\* can still take at most
DlRank ==
    CASE pc = "dl_probe"   -> max_retries + max_copy_retries + 5
      [] pc = "dl_brctl"   -> max_retries + max_copy_retries + 4
      [] pc = "dl_copy"    -> max_retries + 3 + (max_copy_retries - dl.attempt)
      [] pc = "dl_verify"  -> max_retries + 2
      [] pc = "dl_cleanup" -> max_retries + 1
      [] pc = "dl_read"    -> max_retries - dl.reads
      [] OTHER             -> 0

C20_HardStopDiscardsPartialText ==
    ex.hardStop =>
        /\ pc = "m_check"
        /\ ex.returned
        /\ ex.invoked = {"A", "B", "C"}
        /\ ~ex.enoughA /\ ~ex.enoughB
        /\ file_contents = <<>>

\* Stage C has stopped an extraction that held a non-blank text of fewer
\* than 50 characters; the text was not returned
C20_Witness ==
    /\ ex.hardStop
    /\ Strip(ex.text) # <<>>
    /\ NeedsMoreText(ex.text)
    /\ file_contents = <<>>

\* C21: whenever Stage B has been invoked, the text held after it has
\* nothing of Stage A's output.
C21_StageBAlwaysRestarts ==
    "B" \in ex.invoked => "A" \notin ex.from

\* C21, as the code has it: Stage B restarts from empty when pdfplumber is
\* there and opens the document; otherwise Stage A's text, of fewer than 50
\* characters, is still held after Stage B, and Stage C is entered, which
\* replaces it or returns "".  The text held is at no time built by two
\* stages, and a returned text is the output of one stage: of Stage A when it
\* ran alone, of Stage B when Stage C was not entered, else of Stage C.
C21_SingleStageText ==
    /\ Cardinality(ex.from) <= 1
    /\ (~ex.returned => (ex.text # <<>> <=> ex.from # {}))
    /\ ("B" \in ex.invoked /\ "A" \in ex.from =>
            /\ NeedsMoreText(ex.text)
            /\ \/ pc = "ex_ocr"
               \/ pc = "m_check" /\ ex.hardStop /\ file_contents = <<>>)
    /\ (pc = "m_check" /\ file_contents # <<>> =>
            \/ ex.from = {"A"} /\ ex.invoked = {"A"}
            \/ ex.from = {"B"} /\ ex.invoked = {"A", "B"}
            \/ ex.from = {"C"} /\ ex.invoked = {"A", "B", "C"})

\* Stage B has been invoked on a document pdfplumber could not open: the
\* text Stage A left is still held on the way into Stage C
C21_Witness ==
    /\ pc = "ex_ocr"
    /\ "B" \in ex.invoked
    /\ ex.from = {"A"}
    /\ ex.text # <<>>

\* C22: every strategy the viewer's extract_text_from_pdf reports in
\* method_used is one whose output is in the returned text; a strategy whose
\* output a later stage discarded is not reported.
C22_MethodsProducedText ==
    pc = "v_done" =>
        \A i \in 1..Len(ex.methods) :
            ex.methods[i] \in ex.from /\ file_contents # <<>>

\* The files that hold document d
CopiesOf(f, d) == {e \in f : e.doc = d}

\* C23: document conservation.  In every state of a run each document of the
\* listing is held by exactly one file; no step deletes or replaces a file
\* (the number of files stays, and a file filed before the run or moved out
\* of the inbox stays as it is); a document still in the inbox has not been
\* moved, and none is moved more than once.
C23_DocumentConservation ==
    [][/\ \A d \in Docs :
            /\ Cardinality(CopiesOf(fs, d)) = 1
            /\ Cardinality(CopiesOf(fs', d)) = 1
            /\ hist'[d].moves <= 1
            /\ (\E e \in CopiesOf(fs', d) : e.dir = Inbox) <=> hist'[d].moves = 0
       /\ \A e \in fs : (e.doc = Foreign \/ e.dir # Inbox) => e \in fs'
       /\ Cardinality(fs') = Cardinality(fs)]_vars

\* The last file is done: one document was renamed and moved, another is
\* still in the inbox because a file of its name was filed before the run
C23_Witness ==
    /\ pc = "m_loop" /\ idx = NumFiles + 1
    /\ PriorFiled \in fs
    /\ \E d1, d2 \in Docs :
         /\ hist[d1].renames = 1 /\ hist[d1].moves = 1
         /\ \E e \in CopiesOf(fs, d1) : e.dir # Inbox /\ e.name # pdf_files[d1]
         /\ hist[d2].moves = 0
         /\ Entry(Inbox, Dated, d2) \in fs
         /\ mv.collided

\* C24: the probe and the brctl request do not bear on what
\* ensure_file_downloaded does.  Two calls that meet the same copy, unlink
\* and read outcomes but any probe and brctl outcomes stay at the same
\* position with the same locals and the same scratch file: they attempt the
\* same copies and reads and return the same result.
C24_ProbeAndBrctlIgnored ==
    /\ pc[1] = pc[2]
    /\ dl[1] = dl[2]
    /\ scratch[1] = scratch[2]

\* Both calls have returned the scratch path after the same failed re-read
C24_Witness ==
    /\ pc = <<"ex_begin", "ex_begin">>
    /\ dl[1].result = "Scratch" /\ dl[2].result = "Scratch"
    /\ dl[1].origRead = "failed"
    /\ scratch = <<"data", "data">>

\* C25: on the normal path a failed filename generation ends the work on the
\* document: it is not renamed, not moved, no audit row is written, and it
\* is in the inbox under its original name, also when a destination folder
\* had been resolved.  Only a non-empty answer takes main on to the renaming.
C25_NoNameNoRenameNoMove ==
    [][pc = "m_genname" =>
         /\ (pc' = "m_loop" =>
               /\ nm'.unnamed
               /\ idx' = idx + 1
               /\ fs' = fs /\ auditFile' = auditFile /\ logged' = logged
               /\ hist'[idx].renames = 0 /\ hist'[idx].moves = 0
               /\ hist'[idx].rows = 0
               /\ Entry(Inbox, pdf_files[idx], idx) \in fs')
         /\ (pc' # "m_loop" =>
               /\ pc' = "m_rename"
               /\ nm'.suggested \notin {<<>>, DotPdf}
               /\ ~nm'.unnamed)]_vars

\* generate_filename has failed for a document classified Medical/Oliver; the
\* document is in the inbox under its original name and was not moved
C25_Witness ==
    /\ pc = "m_loop"
    /\ nm.unnamed
    /\ nm.unnamedDest = Some(MedicalOliverFolder)
    /\ hist[idx - 1].renames = 0 /\ hist[idx - 1].moves = 0
    /\ Entry(Inbox, pdf_files[idx - 1], idx - 1) \in fs

\* C26: the result of move_file_to_destination agrees with the disk and the
\* audit file.  After False the file is still at its source path, nothing
\* moved, and the audit file is as it was; after True the file is at the
\* destination and the audit file has gained exactly the row of this move.
C26_ResultAgreesWithDiskAndLog ==
    [][pc = "m_move" =>
         IF mv'.result
         THEN /\ Entry(mv'.dest, mv'.source, idx) \in fs'
              /\ Entry(Inbox, mv'.source, idx) \notin fs'
              /\ auditFile' = Some(LogRows(auditFile,
                                 DataRow(now, pdf_files[idx], mv'.source, mv'.dest)))
         ELSE /\ fs' = fs
              /\ Entry(Inbox, mv'.source, idx) \in fs'
              /\ auditFile' = auditFile]_vars

\* Does the string hold a "/"?
HasSlash(str) == \E i \in 1..Len(str) : str[i] = SL

\* C27: whatever the assistant answers, the category classify_file_category
\* returns is a key of CATEGORY_STRUCTURE or holds no "/"; so
\* get_folder_path_for_category gets no unknown category with a "/", and a
\* category that is returned and is not a key is resolved to the catch-all
\* folder <base>/"Misc. ".
C27_CategoryKeyOrSlashFree ==
    (pc = "parsed" /\ category.some) =>
        /\ (category.val \in CategoryKeys \/ ~HasSlash(category.val))
        /\ (Truthy(category) /\ category.val \notin CategoryKeys =>
                /\ ~HasKnownPrefix(category.val)
                /\ dest_folder = Some(DOCUMENTS_BASE_PATH \o << <<"Misc. ">> >>))

\* The answer Financial/Electric has been parsed: Financial/Electric is no
\* key, the category is Financial, and the folder is the catch-all one
C27_Witness ==
    /\ pc = "parsed"
    /\ response = Some(<<"Financial", SL, "Electric">>)
    /\ category = Some(<<"Financial">>)
    /\ subcategory = Some(<<"Electric">>)
    /\ dest_folder = Some(DOCUMENTS_BASE_PATH \o << <<"Misc. ">> >>)
====
